---- MODULE Spec2Model ----
(***************************************************************************)
(* GreenCart Logistics backend (src/server.js): the MongoDB collections,   *)
(* the CRUD handlers, POST /api/init-data and POST /api/simulation with    *)
(* its middleware, as a state machine.                                     *)
(*                                                                         *)
(* Numbers.  The schema fields currentShiftHours, distance, baseTime and   *)
(* valueRs are JavaScript Numbers and may carry a fraction.  Every such    *)
(* quantity, and everything computed from it, is held as an integer count  *)
(* of hundredths (Scale): 12.5 km is 1250, 40 minutes is 4000.  Inputs     *)
(* carry at most one decimal, so that x * 1.3 and x * 0.1 stay exact.      *)
(* Counts (availableDrivers, indexes, lengths, onTimeDeliveries) are plain *)
(* integers.                                                               *)
(*                                                                         *)
(* Strings that the code inspects character by character (startTime) are   *)
(* sequences of one-character strings.  A request body is a record whose   *)
(* domain holds the fields that were sent: a field that is absent reads    *)
(* as undefined.                                                           *)
(***************************************************************************)
EXTENDS Integers, Sequences, FiniteSets, TLC

\* ------------------------------------------------------------------------
\* Bounds of the model
\* ------------------------------------------------------------------------

\* CRUD and init-data requests served in one behaviour.
MaxOps == 1

\* Simulation requests served in one behaviour, one after the other.
MaxRuns == 2

\* PUT and DELETE requests name one of the first MaxTarget documents of the
\* collection, or an id no document has.
MaxTarget == 1

\* ------------------------------------------------------------------------
\* Numbers
\* ------------------------------------------------------------------------

Scale == 100

N(x) == x * Scale

\* Math.round on a scaled number: the nearest integer, halves towards +infinity.
MathRound(x) == ((x + (Scale \div 2)) \div Scale) * Scale

\* ------------------------------------------------------------------------
\* Sequences
\* ------------------------------------------------------------------------

RemoveAt(s, i) == SubSeq(s, 1, i - 1) \o SubSeq(s, i + 1, Len(s))

\* Query.limit(n) on the collection's natural order.
Limit(s, n) == IF n >= Len(s) THEN s ELSE SubSeq(s, 1, n)

\* ------------------------------------------------------------------------
\* Schemas: the documents a model constructor produces (defaults applied)
\* ------------------------------------------------------------------------

NewDriver(id, name, currentShiftHours, past7DayWorkHours) ==
  [ _id |-> id, name |-> name, currentShiftHours |-> currentShiftHours,
    past7DayWorkHours |-> past7DayWorkHours, isFatigued |-> FALSE ]

NewRoute(id, b) ==
  [ _id |-> id, routeId |-> b.routeId, distance |-> b.distance,
    trafficLevel |-> b.trafficLevel, baseTime |-> b.baseTime ]

\* deliveryTimestamp is carried through unchanged and read by nothing: left out.
NewOrder(id, b) ==
  [ _id |-> id, orderId |-> b.orderId, valueRs |-> b.valueRs,
    assignedRoute |-> b.assignedRoute,
    isOnTime |-> TRUE, penalty |-> 0, bonus |-> 0 ]

TrafficLevels == {"Low", "Medium", "High"}

\* ------------------------------------------------------------------------
\* Sample data of POST /api/init-data
\* ------------------------------------------------------------------------

sampleDrivers ==
  << [name |-> "Raj Kumar",    currentShiftHours |-> N(6), past7DayWorkHours |-> N(45)],
     [name |-> "Priya Singh",  currentShiftHours |-> N(4), past7DayWorkHours |-> N(32)],
     [name |-> "Amit Shah",    currentShiftHours |-> N(9), past7DayWorkHours |-> N(52)],
     [name |-> "Neha Gupta",   currentShiftHours |-> N(7), past7DayWorkHours |-> N(38)],
     [name |-> "Vikram Yadav", currentShiftHours |-> N(5), past7DayWorkHours |-> N(28)] >>

sampleRoutes ==
  << [routeId |-> "RT001", distance |-> N(15), trafficLevel |-> "Low",    baseTime |-> N(45)],
     [routeId |-> "RT002", distance |-> N(25), trafficLevel |-> "High",   baseTime |-> N(80)],
     [routeId |-> "RT003", distance |-> N(12), trafficLevel |-> "Medium", baseTime |-> N(35)],
     [routeId |-> "RT004", distance |-> N(30), trafficLevel |-> "High",   baseTime |-> N(95)],
     [routeId |-> "RT005", distance |-> N(8),  trafficLevel |-> "Low",    baseTime |-> N(25)] >>

sampleOrders ==
  << [orderId |-> "ORD001", valueRs |-> N(1200), assignedRoute |-> "RT001"],
     [orderId |-> "ORD002", valueRs |-> N(850),  assignedRoute |-> "RT002"],
     [orderId |-> "ORD003", valueRs |-> N(1500), assignedRoute |-> "RT003"],
     [orderId |-> "ORD004", valueRs |-> N(750),  assignedRoute |-> "RT004"],
     [orderId |-> "ORD005", valueRs |-> N(2000), assignedRoute |-> "RT005"],
     [orderId |-> "ORD006", valueRs |-> N(950),  assignedRoute |-> "RT001"],
     [orderId |-> "ORD007", valueRs |-> N(1800), assignedRoute |-> "RT002"],
     [orderId |-> "ORD008", valueRs |-> N(650),  assignedRoute |-> "RT003"] >>

\* ------------------------------------------------------------------------
\* Request inputs the model draws from
\* ------------------------------------------------------------------------

\* The Authorization header: absent, a bearer token jwt.verify rejects, one it accepts.
Tokens == {"none", "invalid", "valid"}

DriverBodies ==
  { [name |-> "D", currentShiftHours |-> N(8), past7DayWorkHours |-> N(40)],
    [name |-> "D", currentShiftHours |-> N(9), past7DayWorkHours |-> N(40)],
    [currentShiftHours |-> N(9), past7DayWorkHours |-> N(40)] }

RouteBodies ==
  { [routeId |-> "RT001", distance |-> 1230,  trafficLevel |-> "High",   baseTime |-> N(40)],
    [routeId |-> "RT009", distance |-> N(10), trafficLevel |-> "Medium", baseTime |-> 405],
    [routeId |-> "RT009", distance |-> 0,     trafficLevel |-> "Low",    baseTime |-> N(30)] }

OrderBodies ==
  { [orderId |-> "ORD001", valueRs |-> N(1000), assignedRoute |-> "RT001"],
    [orderId |-> "ORD009", valueRs |-> 100050,  assignedRoute |-> "RT009"],
    [orderId |-> "ORD009", valueRs |-> 0,       assignedRoute |-> "RT001"] }

\* The bodies POST /api/simulation is sent while the stores change.
SimulationBodies ==
  { [availableDrivers |-> a, startTime |-> <<"0","9",":","0","0">>, maxHoursPerDay |-> 8]
      : a \in {3, 6} }
  \cup { [availableDrivers |-> 3, startTime |-> <<"2","5",":","0","0">>, maxHoursPerDay |-> 8] }

\* ------------------------------------------------------------------------
\* Middleware
\* ------------------------------------------------------------------------

\* jwt.verify is an oracle: it accepts exactly the token "valid".
authenticateToken(tok) ==
  IF tok = "none" THEN [status |-> 401, error |-> "Access token required"]
  ELSE IF tok # "valid" THEN [status |-> 403, error |-> "Invalid or expired token"]
  ELSE [status |-> 0, error |-> "next"]

\* !x for a Number field of a body: undefined or 0.
NotNum(body, f) == f \notin DOMAIN body \/ body[f] = 0

\* !x for a String field of a body: undefined or "".
NotStr(body, f) == f \notin DOMAIN body \/ body[f] = ""

\* The same for a string held as a sequence of characters.
NotChars(body, f) == f \notin DOMAIN body \/ body[f] = << >>

Digits == {"0", "1", "2", "3", "4", "5", "6", "7", "8", "9"}

\* timeRegex, had it asked for a two-digit hour: /^([0-1][0-9]|2[0-3]):[0-5][0-9]$/
timeRegexTwoDigitHour(s) ==
  /\ Len(s) = 5
  /\ s[3] = ":"
  /\ s[4] \in {"0", "1", "2", "3", "4", "5"}
  /\ s[5] \in Digits
  /\ \/ s[1] \in {"0", "1"} /\ s[2] \in Digits
     \/ s[1] = "2" /\ s[2] \in {"0", "1", "2", "3"}

\* /^([0-1]?[0-9]|2[0-3]):[0-5][0-9]$/.test(s)
timeRegex(s) ==
  LET n == Len(s)
      h == SubSeq(s, 1, n - 3)
  IN  /\ n \in {4, 5}
      /\ s[n - 2] = ":"
      /\ s[n - 1] \in {"0", "1", "2", "3", "4", "5"}
      /\ s[n] \in Digits
      /\ \/ Len(h) = 1 /\ h[1] \in Digits
         \/ Len(h) = 2 /\ h[1] \in {"0", "1"} /\ h[2] \in Digits
         \/ Len(h) = 2 /\ h[1] = "2" /\ h[2] \in {"0", "1", "2", "3"}

validateSimulationInputs(body) ==
  IF NotNum(body, "availableDrivers") \/ NotChars(body, "startTime")
       \/ NotNum(body, "maxHoursPerDay")
  THEN [status |-> 400,
        error |-> "Missing required parameters: availableDrivers, startTime, maxHoursPerDay"]
  ELSE IF body.availableDrivers < 1 \/ body.availableDrivers > 50
  THEN [status |-> 400, error |-> "Available drivers must be between 1 and 50"]
  ELSE IF body.maxHoursPerDay < 1 \/ body.maxHoursPerDay > 24
  THEN [status |-> 400, error |-> "Max hours per day must be between 1 and 24"]
  ELSE IF ~timeRegex(body.startTime)
  THEN [status |-> 400, error |-> "Start time must be in HH:MM format"]
  ELSE [status |-> 0, error |-> "next"]

\* ------------------------------------------------------------------------
\* Simulation logic
\* ------------------------------------------------------------------------

\* obj.f read as a condition, for a field the object may not have (undefined is falsy).
Truthy(obj, f) == f \in DOMAIN obj /\ obj[f] = TRUE

\* calculateDeliveryTime = (route, driver, baseTime) => ...: the result in scaled
\* minutes. deliveryTime *= 1.3 is taken in thousandths and rounded once.
calculateDeliveryTime(route, driver, baseTime) ==
  LET deliveryTime13 == IF Truthy(driver, "isFatigued") THEN baseTime * 13
                        ELSE baseTime * 10
  IN  ((deliveryTime13 + 5 * Scale) \div (10 * Scale)) * Scale

\* calculateFuelCost, had it charged the surcharge on Medium routes too.
calculateFuelCostSurchargeAboveLow(route) ==
  LET baseCost == 5 * route.distance
  IN  IF route.trafficLevel # "Low" THEN baseCost + 2 * route.distance ELSE baseCost

calculateFuelCost(route) ==
  LET baseCost == 5 * route.distance
  IN  IF route.trafficLevel = "High" THEN baseCost + 2 * route.distance ELSE baseCost

\* drivers.forEach(driver => { driver.isFatigued = driver.currentShiftHours > 8 })
checkFatigue(ds) ==
  [i \in 1..Len(ds) |-> [ds[i] EXCEPT !.isFatigued = (ds[i].currentShiftHours > N(8))]]

\* routes.forEach(route => { routeMap[route.routeId] = route }): the last route of
\* an id wins.
routeMapOf(rs) ==
  [id \in {rs[i].routeId : i \in 1..Len(rs)} |->
     LET last == CHOOSE i \in 1..Len(rs) :
                   /\ rs[i].routeId = id
                   /\ \A j \in 1..Len(rs) : rs[j].routeId = id => j <= i
     IN  rs[last]]

\* driverIndexOf, had it counted positions from 1.
driverIndexFromOne(index, availableDrivers) == (index + 1) % availableDrivers

\* const driverIndex = index % availableDrivers (index is zero-based).
driverIndexOf(index, availableDrivers) == index % availableDrivers

\* const isLate = actualDeliveryTime > (route.baseTime + 10)
isLateOf(actualDeliveryTime, route) == actualDeliveryTime > route.baseTime + N(10)

\* bonusOf, had it paid the bonus from 1000 on.
bonusFrom1000(order) == IF order.valueRs >= N(1000) THEN order.valueRs \div 10 ELSE 0

\* if (order.valueRs > 1000) bonus = order.valueRs * 0.1, on the on-time branch.
bonusOf(order) == IF order.valueRs > N(1000) THEN order.valueRs \div 10 ELSE 0

emptyTotals ==
  [ totalProfit |-> 0, totalFuelCost |-> 0, totalPenalties |-> 0, totalBonuses |-> 0,
    onTimeDeliveries |-> 0,
    fuelCostByTraffic |-> [t \in TrafficLevels |-> 0],
    processedOrders |-> << >> ]

\* The callback of orders.map for the order at zero-based position index, given the
\* running totals acc: the totals after it, with its entry of processedOrders added.
processOrder(acc, order, index, ds, routeMap, availableDrivers) ==
  IF order.assignedRoute \notin DOMAIN routeMap
  THEN [acc EXCEPT !.processedOrders = Append(@, order)]
  ELSE
    LET route == routeMap[order.assignedRoute]
        assignedDriver == ds[driverIndexOf(index, availableDrivers) + 1]
        actualDeliveryTime == calculateDeliveryTime(assignedDriver, route, route.baseTime)
        isLate == isLateOf(actualDeliveryTime, route)
        penalty == IF isLate THEN N(50) ELSE 0
        bonus == IF isLate THEN 0 ELSE bonusOf(order)
        fuelCost == calculateFuelCost(route)
        orderProfit == order.valueRs + bonus - penalty - fuelCost
    IN  [ totalProfit |-> acc.totalProfit + orderProfit,
          totalFuelCost |-> acc.totalFuelCost + fuelCost,
          totalPenalties |-> acc.totalPenalties + penalty,
          totalBonuses |-> acc.totalBonuses + bonus,
          onTimeDeliveries |-> IF isLate THEN acc.onTimeDeliveries
                               ELSE acc.onTimeDeliveries + 1,
          fuelCostByTraffic |->
            [acc.fuelCostByTraffic EXCEPT ![route.trafficLevel] = @ + fuelCost],
          processedOrders |->
            Append(acc.processedOrders,
                   [ _id |-> order._id, orderId |-> order.orderId,
                     valueRs |-> order.valueRs, assignedRoute |-> order.assignedRoute,
                     assignedDriver |-> assignedDriver._id,
                     actualDeliveryTime |-> actualDeliveryTime,
                     isOnTime |-> ~isLate, penalty |-> penalty, bonus |-> bonus,
                     fuelCost |-> fuelCost ]) ]

\* orders.map(...) over the first n orders, left to right.
RECURSIVE processOrders(_, _, _, _, _)
processOrders(os, n, ds, routeMap, availableDrivers) ==
  IF n = 0 THEN emptyTotals
  ELSE processOrder(processOrders(os, n - 1, ds, routeMap, availableDrivers),
                    os[n], n - 1, ds, routeMap, availableDrivers)

\* (onTimeDeliveries / orders.length) * 100, then Math.round(x * 100) / 100: scaled.
efficiencyScoreOf(onTimeDeliveries, n) ==
  IF n > 0 THEN (2 * onTimeDeliveries * 100 * Scale + n) \div (2 * n) ELSE 0

resultsOf(t, n) ==
  [ totalProfit |-> MathRound(t.totalProfit),
    efficiencyScore |-> efficiencyScoreOf(t.onTimeDeliveries, n),
    onTimeDeliveries |-> t.onTimeDeliveries,
    totalDeliveries |-> n,
    fuelCost |-> MathRound(t.totalFuelCost),
    penalties |-> t.totalPenalties,
    bonuses |-> MathRound(t.totalBonuses) ]

deliveryBreakdownOf(t, n) ==
  << [label |-> "On Time", value |-> t.onTimeDeliveries],
     [label |-> "Late", value |-> n - t.onTimeDeliveries] >>

\* Object.entries(fuelCostByTraffic) in insertion order: Low, Medium, High.
fuelCostBreakdownOf(t) ==
  << [label |-> "Low Traffic", value |-> MathRound(t.fuelCostByTraffic["Low"])],
     [label |-> "Medium Traffic", value |-> MathRound(t.fuelCostByTraffic["Medium"])],
     [label |-> "High Traffic", value |-> MathRound(t.fuelCostByTraffic["High"])] >>

\* runSimulation, had the message named the two counts the other way round.
runSimulationCountsSwapped(ds, rs, os, availableDrivers) ==
  IF Len(ds) < availableDrivers
  THEN [status |-> 400, error |-> "Not enough drivers available",
        found |-> availableDrivers, requested |-> Len(ds)]
  ELSE
    LET t == processOrders(os, Len(os), checkFatigue(ds), routeMapOf(rs), availableDrivers)
    IN  [status |-> 200,
         results |-> resultsOf(t, Len(os)),
         deliveryBreakdown |-> deliveryBreakdownOf(t, Len(os)),
         fuelCostBreakdown |-> fuelCostBreakdownOf(t)]

\* The handler from the driver check to the response body, on the three collections
\* it fetched (ds already limited to availableDrivers).
runSimulation(ds, rs, os, availableDrivers) ==
  IF Len(ds) < availableDrivers
  THEN [status |-> 400, error |-> "Not enough drivers available",
        found |-> Len(ds), requested |-> availableDrivers]
  ELSE
    LET t == processOrders(os, Len(os), checkFatigue(ds), routeMapOf(rs), availableDrivers)
    IN  [status |-> 200,
         results |-> resultsOf(t, Len(os)),
         deliveryBreakdown |-> deliveryBreakdownOf(t, Len(os)),
         fuelCostBreakdown |-> fuelCostBreakdownOf(t)]

\* ------------------------------------------------------------------------
\* State
\* ------------------------------------------------------------------------

VARIABLES
  Driver,            \* the drivers collection, in natural order
  Route,             \* the routes collection
  Order,             \* the orders collection
  SimulationResult,  \* the simulation results collection
  nextId,            \* the next ObjectId
  pc,                \* POST /api/simulation: where the request in flight stands
  req,               \* its body
  drivers,           \* its local drivers (the fetched documents)
  routes,            \* its local routes
  orders,            \* its local orders
  totals,            \* its running totals and processedOrders
  res,               \* the response to the last simulation request
  ipc,               \* POST /api/init-data: the next of its six store operations
  iauth,             \* the authorization its request in flight carries (never read)
  dash,              \* the response to the last GET /api/dashboard
  nOps,              \* CRUD and init-data requests served
  nRuns,             \* simulation requests served
  seen               \* the store contents that existed while the run was in flight

vars == <<Driver, Route, Order, SimulationResult, nextId, pc, req, drivers, routes,
          orders, totals, res, ipc, iauth, dash, nOps, nRuns, seen>>

\* The unique index on routeId / orderId: the key is taken by another document.
taken(coll, key, v, exceptId) ==
  \E i \in 1..Len(coll) : coll[i][key] = v /\ coll[i]._id # exceptId

\* Model.insertMany(docs) from docs[k] on, ordered: it stops at the first document
\* the unique index on key refuses, keeping what it inserted before.
RECURSIVE insertMany(_, _, _, _)
insertMany(coll, docs, key, k) ==
  IF k > Len(docs) THEN coll
  ELSE IF key # "" /\ taken(coll, key, docs[k][key], 0) THEN coll
  ELSE insertMany(Append(coll, docs[k]), docs, key, k + 1)

\* The documents insertMany is given, with ObjectIds from first on.
sampleDriverDocs(first) ==
  [i \in 1..Len(sampleDrivers) |->
     NewDriver(first + i - 1, sampleDrivers[i].name, sampleDrivers[i].currentShiftHours,
               sampleDrivers[i].past7DayWorkHours)]

sampleRouteDocs(first) ==
  [i \in 1..Len(sampleRoutes) |-> NewRoute(first + i - 1, sampleRoutes[i])]

sampleOrderDocs(first) ==
  [i \in 1..Len(sampleOrders) |-> NewOrder(first + i - 1, sampleOrders[i])]

noResponse == [status |-> 0, error |-> "none"]

\* The server starts on the database it is pointed at: an empty one, or one that an
\* earlier POST /api/init-data filled.
Init ==
  /\ \/ /\ Driver = << >>
        /\ Route = << >>
        /\ Order = << >>
        /\ nextId = 1
     \/ /\ Driver = sampleDriverDocs(1)
        /\ Route = sampleRouteDocs(1 + Len(sampleDrivers))
        /\ Order = sampleOrderDocs(1 + Len(sampleDrivers) + Len(sampleRoutes))
        /\ nextId = 1 + Len(sampleDrivers) + Len(sampleRoutes) + Len(sampleOrders)
  /\ SimulationResult = << >>
  /\ pc = "idle"
  /\ req = << >>
  /\ drivers = << >>
  /\ routes = << >>
  /\ orders = << >>
  /\ totals = emptyTotals
  /\ res = noResponse
  /\ ipc = 0
  /\ iauth = "none"
  /\ dash = noResponse
  /\ nOps = 0
  /\ nRuns = 0
  /\ seen = {}

\* A run is in flight: a change of the stores is one more content that existed
\* between its request and its response.
reading == pc \in {"findRoutes", "findOrders", "save"}

observed(D, R, O) == IF reading THEN seen \cup {<<D, R, O>>} ELSE seen

ids(coll) == {coll[i]._id : i \in 1..Len(coll)}

indexOfId(coll, id) == CHOOSE i \in 1..Len(coll) : coll[i]._id = id

\* The :id parameters the model sends: 0 is the id of no document.
targets(coll) == {coll[i]._id : i \in 1..(IF Len(coll) < MaxTarget THEN Len(coll) ELSE MaxTarget)}
                 \cup {0}

\* A store operation of a CRUD handler: the three collections after it.
write(D, R, O, n) ==
  /\ Driver' = D
  /\ Route' = R
  /\ Order' = O
  /\ nextId' = nextId + n
  /\ seen' = observed(D, R, O)
  /\ UNCHANGED <<SimulationResult, pc, req, drivers, routes, orders, totals, res, dash,
                 nRuns>>

\* ------------------------------------------------------------------------
\* Driver CRUD
\* ------------------------------------------------------------------------

\* POST /api/drivers
CreateDriver ==
  \E tok \in Tokens, body \in DriverBodies :
    /\ nOps < MaxOps
    /\ IF authenticateToken(tok).status # 0 \/ NotStr(body, "name")
       THEN UNCHANGED vars
       ELSE /\ write(Append(Driver,
                       NewDriver(nextId, body.name,
                         IF NotNum(body, "currentShiftHours") THEN 0
                         ELSE body.currentShiftHours,
                         IF NotNum(body, "past7DayWorkHours") THEN 0
                         ELSE body.past7DayWorkHours)),
                     Route, Order, 1)
            /\ nOps' = nOps + 1
            /\ UNCHANGED <<ipc, iauth>>

\* PUT /api/drivers/:id (a body that carries the three fields)
UpdateDriver ==
  \E tok \in Tokens, id \in targets(Driver),
     body \in {b \in DriverBodies : "name" \in DOMAIN b} :
    /\ nOps < MaxOps
    /\ IF authenticateToken(tok).status # 0 \/ id \notin ids(Driver)
       THEN UNCHANGED vars
       ELSE /\ write([Driver EXCEPT ![indexOfId(Driver, id)] =
                        [@ EXCEPT !.name = body.name,
                                  !.currentShiftHours = body.currentShiftHours,
                                  !.past7DayWorkHours = body.past7DayWorkHours]],
                     Route, Order, 0)
            /\ nOps' = nOps + 1
            /\ UNCHANGED <<ipc, iauth>>

\* DELETE /api/drivers/:id
DeleteDriver ==
  \E tok \in Tokens, id \in targets(Driver) :
    /\ nOps < MaxOps
    /\ IF authenticateToken(tok).status # 0 \/ id \notin ids(Driver)
       THEN UNCHANGED vars
       ELSE /\ write(RemoveAt(Driver, indexOfId(Driver, id)), Route, Order, 0)
            /\ nOps' = nOps + 1
            /\ UNCHANGED <<ipc, iauth>>

\* ------------------------------------------------------------------------
\* Route CRUD
\* ------------------------------------------------------------------------

\* POST /api/routes
CreateRoute ==
  \E tok \in Tokens, body \in RouteBodies :
    /\ nOps < MaxOps
    /\ IF \/ authenticateToken(tok).status # 0
          \/ NotStr(body, "routeId") \/ NotNum(body, "distance")
          \/ NotStr(body, "trafficLevel") \/ NotNum(body, "baseTime")
          \/ taken(Route, "routeId", body.routeId, 0)
       THEN UNCHANGED vars
       ELSE /\ write(Driver, Append(Route, NewRoute(nextId, body)), Order, 1)
            /\ nOps' = nOps + 1
            /\ UNCHANGED <<ipc, iauth>>

\* PUT /api/routes/:id
UpdateRoute ==
  \E tok \in Tokens, id \in targets(Route), body \in RouteBodies :
    /\ nOps < MaxOps
    /\ IF \/ authenticateToken(tok).status # 0
          \/ id \notin ids(Route)
          \/ taken(Route, "routeId", body.routeId, id)
       THEN UNCHANGED vars
       ELSE /\ write(Driver,
                     [Route EXCEPT ![indexOfId(Route, id)] = NewRoute(id, body)],
                     Order, 0)
            /\ nOps' = nOps + 1
            /\ UNCHANGED <<ipc, iauth>>

\* DELETE /api/routes/:id
DeleteRoute ==
  \E tok \in Tokens, id \in targets(Route) :
    /\ nOps < MaxOps
    /\ IF authenticateToken(tok).status # 0 \/ id \notin ids(Route)
       THEN UNCHANGED vars
       ELSE /\ write(Driver, RemoveAt(Route, indexOfId(Route, id)), Order, 0)
            /\ nOps' = nOps + 1
            /\ UNCHANGED <<ipc, iauth>>

\* ------------------------------------------------------------------------
\* Order CRUD
\* ------------------------------------------------------------------------

\* POST /api/orders
CreateOrder ==
  \E tok \in Tokens, body \in OrderBodies :
    /\ nOps < MaxOps
    /\ IF \/ authenticateToken(tok).status # 0
          \/ NotStr(body, "orderId") \/ NotNum(body, "valueRs")
          \/ NotStr(body, "assignedRoute")
          \/ taken(Order, "orderId", body.orderId, 0)
       THEN UNCHANGED vars
       ELSE /\ write(Driver, Route, Append(Order, NewOrder(nextId, body)), 1)
            /\ nOps' = nOps + 1
            /\ UNCHANGED <<ipc, iauth>>

\* PUT /api/orders/:id
UpdateOrder ==
  \E tok \in Tokens, id \in targets(Order), body \in OrderBodies :
    /\ nOps < MaxOps
    /\ IF \/ authenticateToken(tok).status # 0
          \/ id \notin ids(Order)
          \/ taken(Order, "orderId", body.orderId, id)
       THEN UNCHANGED vars
       ELSE /\ write(Driver, Route,
                     [Order EXCEPT ![indexOfId(Order, id)] =
                        [@ EXCEPT !.orderId = body.orderId, !.valueRs = body.valueRs,
                                  !.assignedRoute = body.assignedRoute]],
                     0)
            /\ nOps' = nOps + 1
            /\ UNCHANGED <<ipc, iauth>>

\* DELETE /api/orders/:id
DeleteOrder ==
  \E tok \in Tokens, id \in targets(Order) :
    /\ nOps < MaxOps
    /\ IF authenticateToken(tok).status # 0 \/ id \notin ids(Order)
       THEN UNCHANGED vars
       ELSE /\ write(Driver, Route, RemoveAt(Order, indexOfId(Order, id)), 0)
            /\ nOps' = nOps + 1
            /\ UNCHANGED <<ipc, iauth>>

\* ------------------------------------------------------------------------
\* POST /api/init-data (no middleware): six store operations, one per await
\* ------------------------------------------------------------------------

initStep(D, R, O, n, next) ==
  /\ write(D, R, O, n)
  /\ ipc' = next
  /\ iauth' = IF next = 0 THEN "none" ELSE iauth
  /\ UNCHANGED nOps

\* await Driver.deleteMany({}), as the request arrives: whatever authorization
\* header it carries, no middleware looks at it.
InitDeleteDrivers ==
  \E tok \in Tokens :
    /\ ipc = 0
    /\ nOps < MaxOps
    /\ write(<< >>, Route, Order, 0)
    /\ ipc' = 1
    /\ iauth' = tok
    /\ nOps' = nOps + 1

\* await Route.deleteMany({})
InitDeleteRoutes == ipc = 1 /\ initStep(Driver, << >>, Order, 0, 2)

\* await Order.deleteMany({})
InitDeleteOrders == ipc = 2 /\ initStep(Driver, Route, << >>, 0, 3)

\* await Driver.insertMany(sampleDrivers)
InitInsertDrivers ==
  /\ ipc = 3
  /\ LET docs == sampleDriverDocs(nextId)
     IN  initStep(insertMany(Driver, docs, "", 1), Route, Order, Len(docs), 4)

\* await Route.insertMany(sampleRoutes); a duplicate routeId throws: 500, and the
\* orders are not inserted.
InitInsertRoutes ==
  /\ ipc = 4
  /\ LET docs == sampleRouteDocs(nextId)
         R == insertMany(Route, docs, "routeId", 1)
     IN  initStep(Driver, R, Order, Len(docs),
                  IF Len(R) = Len(Route) + Len(docs) THEN 5 ELSE 0)

\* await Order.insertMany(sampleOrders)
InitInsertOrders ==
  /\ ipc = 5
  /\ LET docs == sampleOrderDocs(nextId)
     IN  initStep(Driver, Route, insertMany(Order, docs, "orderId", 1), Len(docs), 0)

\* ------------------------------------------------------------------------
\* POST /api/simulation: authenticateToken, validateSimulationInputs, handler
\* ------------------------------------------------------------------------

\* The request arrives and passes the middleware or is answered by it; the handler
\* starts with await Driver.find().limit(availableDrivers).
SimRequest ==
  \E tok \in Tokens, body \in SimulationBodies :
    /\ pc = "idle"
    /\ nRuns < MaxRuns
    /\ nRuns' = nRuns + 1
    /\ UNCHANGED <<Driver, Route, Order, SimulationResult, nextId, ipc, iauth, dash, nOps>>
    /\ IF authenticateToken(tok).status # 0
       THEN /\ res' = authenticateToken(tok)
            /\ UNCHANGED <<pc, req, drivers, routes, orders, totals, seen>>
       ELSE IF validateSimulationInputs(body).status # 0
       THEN /\ res' = validateSimulationInputs(body)
            /\ UNCHANGED <<pc, req, drivers, routes, orders, totals, seen>>
       ELSE /\ pc' = "findRoutes"
            /\ req' = body
            /\ drivers' = Limit(Driver, body.availableDrivers)
            /\ routes' = << >>
            /\ orders' = << >>
            /\ totals' = emptyTotals
            /\ res' = noResponse
            /\ seen' = {<<Driver, Route, Order>>}

\* await Route.find()
FindRoutes ==
  /\ pc = "findRoutes"
  /\ routes' = Route
  /\ pc' = "findOrders"
  /\ UNCHANGED <<Driver, Route, Order, SimulationResult, nextId, req, drivers, orders,
                 totals, res, ipc, iauth, dash, nOps, nRuns, seen>>

\* FindOrders, had the handler saved the drivers it flagged (driver.save()).
FindOrdersSavingDrivers ==
  /\ pc = "findOrders"
  /\ orders' = Order
  /\ UNCHANGED <<Route, Order, SimulationResult, nextId, req, routes, ipc, iauth, dash, nOps,
                 nRuns, seen>>
  /\ IF Len(drivers) < req.availableDrivers
     THEN /\ res' = runSimulation(drivers, routes, Order, req.availableDrivers)
          /\ pc' = "idle"
          /\ UNCHANGED <<Driver, drivers, totals>>
     ELSE /\ drivers' = checkFatigue(drivers)
          /\ Driver' = [i \in 1..Len(Driver) |->
                          IF \E k \in 1..Len(drivers) : drivers[k]._id = Driver[i]._id
                          THEN [Driver[i] EXCEPT !.isFatigued = (@ \/ Driver[i].currentShiftHours > N(8))]
                          ELSE Driver[i]]
          /\ totals' = processOrders(Order, Len(Order), checkFatigue(drivers),
                                     routeMapOf(routes), req.availableDrivers)
          /\ pc' = "save"
          /\ UNCHANGED res

\* await Order.find(), then the handler up to the next await: the driver count
\* check, the fatigue flags, routeMap and orders.map.
FindOrders ==
  /\ pc = "findOrders"
  /\ orders' = Order
  /\ UNCHANGED <<Driver, Route, Order, SimulationResult, nextId, req, routes, ipc, iauth, dash, nOps,
                 nRuns, seen>>
  /\ IF Len(drivers) < req.availableDrivers
     THEN /\ res' = runSimulation(drivers, routes, Order, req.availableDrivers)
          /\ pc' = "idle"
          /\ UNCHANGED <<drivers, totals>>
     ELSE /\ drivers' = checkFatigue(drivers)
          /\ totals' = processOrders(Order, Len(Order), checkFatigue(drivers),
                                     routeMapOf(routes), req.availableDrivers)
          /\ pc' = "save"
          /\ UNCHANGED res

\* What the SimulationResultSchema keeps of an element of a breakdown array: the
\* paths the schema declares.
castTo(obj, paths) == [f \in (DOMAIN obj \cap paths) |-> obj[f]]

\* new SimulationResult({inputs, results, deliveryBreakdown, fuelCostBreakdown});
\* timestamp is the logical time of the run.
newSimulationResult(id, time, body, results, deliveryBreakdown, fuelCostBreakdown) ==
  [ _id |-> id, timestamp |-> time,
    inputs |-> [availableDrivers |-> body.availableDrivers, startTime |-> body.startTime,
                maxHoursPerDay |-> body.maxHoursPerDay],
    results |-> results,
    deliveryBreakdown |->
      [i \in 1..Len(deliveryBreakdown) |-> castTo(deliveryBreakdown[i], {"onTime", "late"})],
    fuelCostBreakdown |->
      [i \in 1..Len(fuelCostBreakdown) |->
         castTo(fuelCostBreakdown[i], {"routeType", "cost"})] ]

\* Save, had the handler kept one document, the latest run, in place of a history.
SaveReplacingHistory ==
  /\ pc = "save"
  /\ LET n == Len(orders)
     IN  /\ SimulationResult' =
               << newSimulationResult(nextId, nRuns, req, resultsOf(totals, n),
                                      deliveryBreakdownOf(totals, n),
                                      fuelCostBreakdownOf(totals)) >>
         /\ res' = [status |-> 200,
                    results |-> resultsOf(totals, n),
                    deliveryBreakdown |-> deliveryBreakdownOf(totals, n),
                    fuelCostBreakdown |-> fuelCostBreakdownOf(totals),
                    simulationId |-> nextId]
  /\ nextId' = nextId + 1
  /\ pc' = "idle"
  /\ UNCHANGED <<Driver, Route, Order, req, drivers, routes, orders, totals, ipc, iauth, dash, nOps,
                 nRuns, seen>>

\* await simulationResult.save(), then res.json(...)
Save ==
  /\ pc = "save"
  /\ LET n == Len(orders)
     IN  /\ SimulationResult' =
               Append(SimulationResult,
                      newSimulationResult(nextId, nRuns, req, resultsOf(totals, n),
                                          deliveryBreakdownOf(totals, n),
                                          fuelCostBreakdownOf(totals)))
         /\ res' = [status |-> 200,
                    results |-> resultsOf(totals, n),
                    deliveryBreakdown |-> deliveryBreakdownOf(totals, n),
                    fuelCostBreakdown |-> fuelCostBreakdownOf(totals),
                    simulationId |-> nextId]
  /\ nextId' = nextId + 1
  /\ pc' = "idle"
  /\ UNCHANGED <<Driver, Route, Order, req, drivers, routes, orders, totals, ipc, iauth, dash, nOps,
                 nRuns, seen>>

\* ------------------------------------------------------------------------
\* GET /api/dashboard
\* ------------------------------------------------------------------------

\* SimulationResult.findOne().sort({timestamp: -1}): the index of the record
\* with the greatest timestamp.
latestSimulation(coll) ==
  CHOOSE i \in 1..Len(coll) : \A j \in 1..Len(coll) : coll[j].timestamp <= coll[i].timestamp

\* The handler's answer on the history coll.
dashboardOf(coll) ==
  IF coll = << >>
  THEN [status |-> 200,
        results |-> [totalProfit |-> 0, efficiencyScore |-> 0, onTimeDeliveries |-> 0,
                     totalDeliveries |-> 0],
        deliveryBreakdown |-> << >>,
        fuelCostBreakdown |-> << >>]
  ELSE LET latest == coll[latestSimulation(coll)]
       IN  [status |-> 200,
            results |-> latest.results,
            deliveryBreakdown |-> latest.deliveryBreakdown,
            fuelCostBreakdown |-> latest.fuelCostBreakdown]

Dashboard ==
  \E tok \in Tokens :
    /\ dash' = IF authenticateToken(tok).status # 0 THEN authenticateToken(tok)
               ELSE dashboardOf(SimulationResult)
    /\ UNCHANGED <<Driver, Route, Order, SimulationResult, nextId, pc, req, drivers, routes,
                   orders, totals, res, ipc, iauth, nOps, nRuns, seen>>

Next ==
  \/ CreateDriver \/ UpdateDriver \/ DeleteDriver
  \/ CreateRoute \/ UpdateRoute \/ DeleteRoute
  \/ CreateOrder \/ UpdateOrder \/ DeleteOrder
  \/ InitDeleteDrivers \/ InitDeleteRoutes \/ InitDeleteOrders
  \/ InitInsertDrivers \/ InitInsertRoutes \/ InitInsertOrders
  \/ SimRequest \/ FindRoutes \/ FindOrders \/ Save
  \/ Dashboard

Spec == Init /\ [][Next]_vars

\* ------------------------------------------------------------------------
\* validateSimulationInputs on its own: one authenticated request, any body
\* ------------------------------------------------------------------------

ValidationBodies ==
  LET A == {[availableDrivers |-> a] : a \in {-1, 0, 1, 50, 51}} \cup {<< >>}
      S == {[startTime |-> t] :
              t \in { << >>,
                      <<"0","9",":","0","0">>, <<"9",":","0","0">>,
                      <<"2","5",":","0","0">>, <<"1","2",":","6","0">>,
                      <<"2","3",":","5","9">>, <<"2","4",":","0","0">>,
                      <<"1","2","0","0">>, <<"0","0","9",":","0","0">>,
                      <<"9",":","5">>, <<"1","9",":","3","0","0">> }} \cup {<< >>}
      H == {[maxHoursPerDay |-> h] : h \in {0, 1, 24, 25}} \cup {<< >>}
  IN  {a @@ t @@ h : a \in A, t \in S, h \in H}

InitValidate ==
  /\ Driver = << >>
  /\ Route = << >>
  /\ Order = << >>
  /\ SimulationResult = << >>
  /\ nextId = 1
  /\ pc = "validate"
  /\ req \in ValidationBodies
  /\ drivers = << >>
  /\ routes = << >>
  /\ orders = << >>
  /\ totals = emptyTotals
  /\ res = noResponse
  /\ ipc = 0
  /\ iauth = "none"
  /\ dash = noResponse
  /\ nOps = 0
  /\ nRuns = 0
  /\ seen = {}

\* The middleware answers 400, or calls next() (status 0).
Validate ==
  /\ pc = "validate"
  /\ res' = validateSimulationInputs(req)
  /\ pc' = "validated"
  /\ UNCHANGED <<Driver, Route, Order, SimulationResult, nextId, req, drivers, routes,
                 orders, totals, ipc, iauth, dash, nOps, nRuns, seen>>

SpecValidate == InitValidate /\ [][Validate]_vars

\* ------------------------------------------------------------------------
\* Claims about validateSimulationInputs (checked under SpecValidate)
\* ------------------------------------------------------------------------

DriverRangeError == "Available drivers must be between 1 and 50"

TimeFormatError == "Start time must be in HH:MM format"

\* C2: a request whose availableDrivers is outside [1,50], 0 and negative values
\* included, is answered 400 'Available drivers must be between 1 and 50' whatever
\* startTime and maxHoursPerDay are. Stated here for the requests that carry a
\* startTime and a maxHoursPerDay (the claim also covers those that do not).
C2_OutOfRangeAlwaysRangeError ==
  ( /\ pc = "validated"
    /\ DOMAIN req = {"availableDrivers", "startTime", "maxHoursPerDay"}
    /\ req.startTime # << >>
    /\ req.maxHoursPerDay # 0
    /\ (req.availableDrivers < 1 \/ req.availableDrivers > 50) )
  => (res.status = 400 /\ res.error = DriverRangeError)

DigitChars == <<"0", "1", "2", "3", "4", "5", "6", "7", "8", "9">>

TwoDigits(n) == <<DigitChars[(n \div 10) + 1], DigitChars[(n % 10) + 1]>>

\* HH:MM with a two-digit hour 00-23 and a two-digit minute 00-59.
StrictTimes == {TwoDigits(h) \o <<":">> \o TwoDigits(m) : h \in 0..23, m \in 0..59}

\* The same, and the hours 0-9 written with one digit.
LooseTimes ==
  StrictTimes \cup {<<DigitChars[h + 1]>> \o <<":">> \o TwoDigits(m) : h \in 0..9, m \in 0..59}

\* The request reaches the time check: the three parameters are there, and the two
\* numbers are in range.
ReachesTimeCheck ==
  /\ DOMAIN req = {"availableDrivers", "startTime", "maxHoursPerDay"}
  /\ req.availableDrivers \in 1..50
  /\ req.maxHoursPerDay \in 1..24
  /\ req.startTime # << >>

\* C3 as stated: a startTime that is not a two-digit hour 00-23, a colon and a
\* two-digit minute 00-59 always yields 'Start time must be in HH:MM format', and one
\* that is such a time is never rejected for its format. Stated here for the requests
\* that reach the time check (the claim also covers those that do not).
C3_StrictFormatAlwaysRejected ==
  (pc = "validated" /\ ReachesTimeCheck)
  => (res.error = TimeFormatError <=> req.startTime \notin StrictTimes)

\* C3 as amended: the answer is 'Start time must be in HH:MM format' exactly when the
\* request reaches the time check and startTime is not an hour 0-23 of one or two
\* digits, a colon and a two-digit minute 00-59.
C3_FormatErrorIffNotLooseTime ==
  pc = "validated"
  => (res.error = TimeFormatError <=> (ReachesTimeCheck /\ req.startTime \notin LooseTimes))

\* C3's case: '25:00' is answered with the format error, and '9:00' is let through.
C3_Witness ==
  /\ pc = "validated"
  /\ ReachesTimeCheck
  /\ \/ req.startTime = <<"2","5",":","0","0">> /\ res.error = TimeFormatError
     \/ req.startTime = <<"9",":","0","0">> /\ res.error = "next"

\* ------------------------------------------------------------------------
\* Claims about a simulation run (checked under Spec)
\* ------------------------------------------------------------------------

\* The run has computed its outcome: the locals are those of the run that answers.
computed == pc = "save" \/ res.status = 200

availableDrivers == req.availableDrivers

processedOrders == totals.processedOrders

\* The order at position i (from 1) names a route the run fetched.
resolves(i) == \E k \in 1..Len(routes) : routes[k].routeId = orders[i].assignedRoute

routeOfOrder(i) == routes[CHOOSE k \in 1..Len(routes) : routes[k].routeId = orders[i].assignedRoute]

\* The driver the claims give to the order at position i (from 1): position
\* (i - 1) mod availableDrivers, from 0, of the fetched drivers.
driverOfOrder(i) == drivers[((i - 1) % availableDrivers) + 1]

\* round(baseTime x 1.3), half up, in scaled minutes.
RoundFatigued(baseTime) == ((13 * baseTime + 500) \div 1000) * 100

\* round(baseTime), half up, in scaled minutes.
RoundPlain(baseTime) == ((baseTime + 50) \div 100) * 100

\* C1: for every order whose route resolves, actualDeliveryTime is round(baseTime x
\* 1.3) when the assigned driver has currentShiftHours > 8 and round(baseTime)
\* otherwise; such an order that is then later than baseTime + 10 carries penalty 50.
C1_FatigueSlowsDelivery ==
  computed =>
    \A i \in 1..Len(orders) :
      resolves(i) =>
        LET r == routeOfOrder(i)
            expected == IF driverOfOrder(i).currentShiftHours > 8 * 100
                        THEN RoundFatigued(r.baseTime) ELSE RoundPlain(r.baseTime)
        IN  /\ processedOrders[i].actualDeliveryTime = expected
            /\ (expected > r.baseTime + 10 * 100) => processedOrders[i].penalty = 50 * 100

\* The step is the run's: the request arriving, or one of its awaits returning.
runStep == pc' # pc \/ nRuns' # nRuns

\* The first n documents of a collection (all of it when it holds fewer).
FirstN(coll, n) == [i \in 1..(IF Len(coll) < n THEN Len(coll) ELSE n) |-> coll[i]]

\* C4: a validated request for more drivers than the roster holds is answered with
\* found = the size of the roster and requested = availableDrivers; no order is
\* processed, and no step of that run changes drivers, routes, orders or the history.
C4_Step ==
  /\ (pc = "idle" /\ pc' = "findRoutes" /\ Len(Driver) < req'.availableDrivers)
       => Len(drivers') = Len(Driver)
  /\ (runStep /\ pc # "idle" /\ Len(drivers) < availableDrivers)
       => /\ UNCHANGED <<Driver, Route, Order, SimulationResult>>
          /\ pc = "findOrders"
               => /\ pc' = "idle"
                  /\ res'.status = 400
                  /\ res'.error = "Not enough drivers available"
                  /\ res'.found = Len(drivers)
                  /\ res'.requested = availableDrivers
                  /\ processedOrders' = << >>

C4_InsufficientDrivers == [][C4_Step]_vars

\* C4's case: a roster of five drivers, six requested, and the answer says so while
\* there are orders to process.
C4_Witness ==
  /\ pc = "idle"
  /\ "found" \in DOMAIN res
  /\ res.found = 5
  /\ res.requested = 6
  /\ Len(Driver) = 5
  /\ Len(orders) > 0
  /\ processedOrders = << >>

\* C5: in the delivery breakdown an order whose route does not resolve counts neither
\* as on time nor as late: on time + late = the number of orders whose route resolved.
C5_UnresolvedCountNeither ==
  res.status = 200 =>
    res.deliveryBreakdown[1].value + res.deliveryBreakdown[2].value
      = Cardinality({i \in 1..Len(orders) : resolves(i)})

\* C6: a processed order is late exactly when actualDeliveryTime > baseTime + 10; a
\* late order has penalty 50, bonus 0 and is not counted on time; an on-time order has
\* penalty 0, is counted on time, and has bonus 10% of valueRs exactly when
\* valueRs > 1000.
C6_PenaltyAndBonus ==
  computed =>
    /\ \A i \in 1..Len(orders) :
         resolves(i) =>
           LET p == processedOrders[i]
               late == p.actualDeliveryTime > routeOfOrder(i).baseTime + 10 * 100
           IN  /\ p.isOnTime = ~late
               /\ late => (p.penalty = 50 * 100 /\ p.bonus = 0)
               /\ ~late => /\ p.penalty = 0
                           /\ orders[i].valueRs > 1000 * 100 => 10 * p.bonus = orders[i].valueRs
                           /\ orders[i].valueRs <= 1000 * 100 => p.bonus = 0
    /\ totals.onTimeDeliveries
         = Cardinality({i \in 1..Len(orders) : resolves(i) /\ processedOrders[i].isOnTime})

\* C6's case: the run processed an on-time order of exactly 1000 with no bonus and one
\* above 1000 with its 10%.
C6_Witness ==
  /\ computed
  /\ \E i, j \in 1..Len(orders) :
       /\ resolves(i) /\ orders[i].valueRs = 1000 * 100
       /\ processedOrders[i].isOnTime /\ processedOrders[i].bonus = 0
       /\ resolves(j) /\ orders[j].valueRs = 1500 * 100
       /\ processedOrders[j].isOnTime /\ processedOrders[j].bonus = 150 * 100

\* C7: the run takes the first availableDrivers drivers of the roster, and the order at
\* zero-based position i, skipped orders counted, gets the driver at i mod
\* availableDrivers of them; an order whose route resolves gets exactly that one
\* driver, and a skipped order is passed through as it was.
C7_Step ==
  /\ (pc = "idle" /\ pc' = "findRoutes")
       => drivers' = FirstN(Driver, req'.availableDrivers)
  /\ (pc = "findOrders" /\ pc' = "save")
       => /\ Len(drivers) = availableDrivers
          /\ Len(processedOrders') = Len(orders')
          /\ \A i \in 1..Len(orders') :
               IF \E k \in 1..Len(routes) : routes[k].routeId = orders'[i].assignedRoute
               THEN /\ "assignedDriver" \in DOMAIN processedOrders'[i]
                    /\ processedOrders'[i].assignedDriver
                         = drivers[((i - 1) % availableDrivers) + 1]._id
               ELSE processedOrders'[i] = orders'[i]

C7_RoundRobin == [][C7_Step]_vars

\* C7's case: an order beyond the first availableDrivers positions, behind a skipped
\* one, has the driver its position gives it.
C7_Witness ==
  /\ pc = "save"
  /\ \E i, j \in 1..Len(orders) :
       /\ j < i /\ ~resolves(j) /\ resolves(i)
       /\ i > availableDrivers
       /\ processedOrders[i].assignedDriver = driverOfOrder(i)._id
       /\ "assignedDriver" \notin DOMAIN processedOrders[j]

\* 5 x distance, plus 2 x distance on a High route: the fuel cost the claims give
\* the order at position i.
FuelCostOfOrder(i) ==
  LET r == routeOfOrder(i)
  IN  5 * r.distance + (IF r.trafficLevel = "High" THEN 2 * r.distance ELSE 0)

\* The sum of FuelCostOfOrder over the first n orders whose route resolved to a tier
\* in tiers.
RECURSIVE FuelSum(_, _)
FuelSum(tiers, n) ==
  IF n = 0 THEN 0
  ELSE FuelSum(tiers, n - 1)
       + (IF resolves(n) /\ routeOfOrder(n).trafficLevel \in tiers
          THEN FuelCostOfOrder(n) ELSE 0)

\* The nearest integer, halves up, of a scaled amount.
Rounded(x) == ((x + 50) \div 100) * 100

BreakdownLabels == <<"Low Traffic", "Medium Traffic", "High Traffic">>

BreakdownTiers == <<"Low", "Medium", "High">>

\* C8 as stated: the fuel cost breakdown has one entry for each of Low, Medium and
\* High, each equal to the sum over the orders whose route resolved to that tier of
\* 5 x distance (+ 2 x distance for High), and the three add up to the run's total
\* fuel cost.
C8_EntriesAreExactSums ==
  res.status = 200 =>
    /\ Len(res.fuelCostBreakdown) = 3
    /\ \A k \in 1..3 :
         /\ res.fuelCostBreakdown[k].label = BreakdownLabels[k]
         /\ res.fuelCostBreakdown[k].value = FuelSum({BreakdownTiers[k]}, Len(orders))
    /\ res.fuelCostBreakdown[1].value + res.fuelCostBreakdown[2].value
         + res.fuelCostBreakdown[3].value = res.results.fuelCost

\* C8 as amended: one entry for each of Low, Medium and High, each the tier's sum
\* rounded to the nearest integer; the unrounded tier sums add up to the run's
\* unrounded total fuel cost, and results.fuelCost is that total rounded; an order
\* whose route does not resolve adds to no sum.
C8_EntriesAreRoundedSums ==
  res.status = 200 =>
    /\ Len(res.fuelCostBreakdown) = 3
    /\ \A k \in 1..3 :
         /\ res.fuelCostBreakdown[k].label = BreakdownLabels[k]
         /\ res.fuelCostBreakdown[k].value
              = Rounded(FuelSum({BreakdownTiers[k]}, Len(orders)))
         /\ totals.fuelCostByTraffic[BreakdownTiers[k]]
              = FuelSum({BreakdownTiers[k]}, Len(orders))
    /\ totals.totalFuelCost = FuelSum(TrafficLevels, Len(orders))
    /\ res.results.fuelCost = Rounded(totals.totalFuelCost)

\* C8's case: the High tier's sum is not a whole number, and is reported rounded.
C8_Witness ==
  /\ res.status = 200
  /\ FuelSum({"High"}, Len(orders)) % 100 # 0
  /\ res.fuelCostBreakdown[3].value = Rounded(FuelSum({"High"}, Len(orders)))

\* What the run answered, without the id of the record it saved.
outcome ==
  IF res.status = 200
  THEN [status |-> 200, results |-> res.results,
        deliveryBreakdown |-> res.deliveryBreakdown,
        fuelCostBreakdown |-> res.fuelCostBreakdown]
  ELSE res

\* C9: the result a run returns is the result of the calculation on the drivers,
\* routes and orders the stores held at one single moment of the run, whatever
\* requests interleave with it.
C9_ResultOfOneSnapshot ==
  (pc = "idle" /\ (res.status = 200 \/ "found" \in DOMAIN res))
  => \E s \in seen :
       outcome = runSimulation(FirstN(s[1], availableDrivers), s[2], s[3], availableDrivers)

\* C10 as stated: the run does not write the recomputed isFatigued flag into the
\* driver records it was given: they are after the run what they were before it.
C10_DriversNotMutated ==
  [][(pc = "findOrders" /\ pc' = "save") => drivers' = drivers]_vars

\* C10 as amended: no step of a run changes the stored drivers, routes or orders; the
\* run writes the recomputed isFatigued flag into the driver documents it fetched and
\* nothing else, leaves the routes and orders it fetched as they are, and puts
\* assignedDriver, actualDeliveryTime, isOnTime, penalty, bonus and fuelCost on new
\* records that carry the order's own fields.
C10_Step ==
  /\ runStep => UNCHANGED <<Driver, Route, Order>>
  /\ (pc = "findOrders" /\ pc' = "save")
       => /\ routes' = routes
          /\ orders' = Order
          /\ Len(drivers') = Len(drivers)
          /\ \A k \in 1..Len(drivers) :
               drivers'[k] = [drivers[k] EXCEPT
                                !.isFatigued = (drivers[k].currentShiftHours > 8 * 100)]
          /\ \A i \in 1..Len(Order) :
               LET p == processedOrders'[i]
               IN  \/ p = Order[i]
                   \/ /\ DOMAIN p = DOMAIN Order[i]
                                      \cup {"assignedDriver", "actualDeliveryTime", "fuelCost"}
                      /\ \A f \in {"_id", "orderId", "valueRs", "assignedRoute"} :
                           p[f] = Order[i][f]

C10_StoresNotWritten == [][C10_Step]_vars

\* C10's case: the run flagged a fetched driver as fatigued, and the stored driver
\* of that id is not flagged.
C10_Witness ==
  /\ pc = "save"
  /\ \E k \in 1..Len(drivers), j \in 1..Len(Driver) :
       /\ Driver[j]._id = drivers[k]._id
       /\ drivers[k].isFatigued
       /\ ~Driver[j].isFatigued
  /\ \E i \in 1..Len(orders) : "assignedDriver" \in DOMAIN processedOrders[i]

\* ------------------------------------------------------------------------
\* Claims about the simulation history, the dashboard and authentication
\* ------------------------------------------------------------------------

\* A simulation request is answered with a result in this step.
completes == res' # res /\ res'.status = 200

\* A simulation request is answered with an error in this step: by authenticateToken
\* (401, 403), by validateSimulationInputs or by the driver count check (400).
rejected == res' # res /\ res'.status \in {400, 401, 403}

\* C11: the simulation history is append-only. A step never removes or changes a
\* record the history holds; the step that answers a simulation request with a
\* result appends exactly one record, the one the answer names; every other step,
\* a request rejected by authentication, validation or the driver count check, a
\* driver, route or order request, a step of init-data, a dashboard query, leaves the
\* history as it is.
C11_Step ==
  /\ Len(SimulationResult') >= Len(SimulationResult)
  /\ SubSeq(SimulationResult', 1, Len(SimulationResult)) = SimulationResult
  /\ completes => /\ Len(SimulationResult') = Len(SimulationResult) + 1
                  /\ SimulationResult'[Len(SimulationResult')]._id = res'.simulationId
  /\ rejected => SimulationResult' = SimulationResult
  /\ ~completes => SimulationResult' = SimulationResult

C11_HistoryAppendOnly == [][C11_Step]_vars

\* C11's case: two runs completed with a driver, route, order or init-data request
\* between them that changed the outcome, and the history holds both records, the
\* earlier one first.
C11_Witness ==
  /\ Len(SimulationResult) = 2
  /\ nOps = 1
  /\ SimulationResult[1].results # SimulationResult[2].results
  /\ SimulationResult[1].timestamp < SimulationResult[2].timestamp
  /\ res.status = 200
  /\ res.simulationId = SimulationResult[2]._id

\* C12: the record a run stores holds the inputs, the results, the delivery
\* breakdown and the fuel cost breakdown as the run returned them to its caller, and
\* a dashboard query answered after a run completed returns that run's results, its
\* on-time and late counts and its per-tier fuel costs.
C12_Step ==
  /\ completes
       => LET stored == SimulationResult'[Len(SimulationResult')]
          IN  /\ stored.inputs = [availableDrivers |-> req.availableDrivers,
                                  startTime |-> req.startTime,
                                  maxHoursPerDay |-> req.maxHoursPerDay]
              /\ stored.results = res'.results
              /\ stored.deliveryBreakdown = res'.deliveryBreakdown
              /\ stored.fuelCostBreakdown = res'.fuelCostBreakdown
  /\ (dash' # dash /\ dash'.status = 200 /\ res.status = 200)
       => /\ dash'.results = res.results
          /\ dash'.deliveryBreakdown = res.deliveryBreakdown
          /\ dash'.fuelCostBreakdown = res.fuelCostBreakdown

C12_RecordAsReturned == [][C12_Step]_vars

\* The authorization carried by the init-data request whose store operation this
\* step is.
initAuthorization == IF ipc = 0 THEN iauth' ELSE iauth

\* C13: a request that carries no valid bearer token never runs a simulation and
\* never changes the stored drivers, routes, orders or simulation history. A step
\* taken for an init-data request without a valid token leaves the four stores as
\* they are, and a simulation request answered 401 or 403 starts no run and writes
\* nothing (a driver, route or order request that is refused changes no state).
C13_Step ==
  /\ (ipc' # ipc /\ initAuthorization # "valid")
       => UNCHANGED <<Driver, Route, Order, SimulationResult>>
  /\ (res' # res /\ res'.status \in {401, 403})
       => /\ UNCHANGED <<Driver, Route, Order, SimulationResult>>
          /\ pc' = "idle"
          /\ pc = "idle"

C13_NoWriteWithoutToken == [][C13_Step]_vars

====
